---- MODULE Spec2Model ----
(***************************************************************************)
(* git-spice: the upstack restack command (upstack_restack.go) and the     *)
(* downstack edit command (downstack_edit.go), run against a branch store  *)
(* and a git repository.                                                   *)
(*                                                                         *)
(* The repository is a commit graph (every commit has one parent), a tip   *)
(* per branch, the checked-out branch and the rebase in progress, if any.  *)
(* The store maps every tracked branch to its base name and base hash.     *)
(* The service (gs.Service), the store and the git adapter are not part of *)
(* the sources at hand: they follow sections 4.A-4.E of the specification. *)
(***************************************************************************)
EXTENDS Integers, Sequences, FiniteSets, TLC

\* ------------------------------------------------------------------ bounds

\* The number of commits the repository may hold.
MaxCommits == 7

\* The number of commits up to which the user adds commits of their own.
MaxUserCommits == 5

\* The number of lines of an edited document (the footer aside).
MaxDocLines == 3

\* The number of commands of a with-term script.
MaxScript == 3

\* ------------------------------------------------------------- the universe

\* store.Trunk()
Trunk == "main"

\* The tracked branches, in lexicographic order.
BranchOrder == <<"A", "B", "C">>

Branches == {BranchOrder[k] : k \in 1..Len(BranchOrder)}

Refs == Branches \cup {Trunk}

VARIABLES
    repo,      \* the git repository: [parent, tip, head, rebase]
    store,     \* the branch store: branch -> [name, hash] (base.name, base.hash)
    pc,        \* where the running command stands
    us,        \* locals of upstackRestackCmd.Run
    de,        \* locals of downstackEditCmd.Run
    result,    \* what the command returned
    calls,     \* the service and adapter calls of the running command, in order
    before,    \* the store and the repository when the running command started
    resumable, \* the branch whose conflicted restack the user has just completed
    cancelled, \* the context of the running command is cancelled
    procs,     \* two invocations of restack_upstack: process -> [pc, us, result, calls]
    lock,      \* the holder of the write lock of the store (0: free)
    script,    \* WithTerm: the commands of the instruction file
    ip,        \* WithTerm: the place of the command the loop is at
    exitCode,  \* WithTerm: the named result exitCode
    lastSnapshot, \* WithTerm: the local lastSnapshot
    screen,    \* WithTerm: what the terminal emulator shows
    aw,        \* WithTerm: the await that is polling
    tlog,      \* WithTerm: what became of every command so far
    tpc        \* WithTerm: "off", "run" or "done"

\* The state of the two concurrent invocations.
twoVars == <<procs, lock>>

\* The state of the one command of Spec.
cmdVars == <<pc, us, de, result, calls, before, resumable, cancelled>>

\* The state of WithTerm.
termVars == <<script, ip, exitCode, lastSnapshot, screen, aw, tlog, tpc>>

vars == <<repo, store, pc, us, de, result, calls, before, resumable, cancelled,
          procs, lock, script, ip, exitCode, lastSnapshot, screen, aw, tlog, tpc>>

\* ------------------------------------------------- the commit graph (4.A)

\* No rebase is in progress.
NoRebase == [branch |-> "", upstream |-> 0, onto |-> 0, by |-> ""]

RECURSIVE Ancestors(_, _)
\* The commits reachable from c, c included; 0 is "no commit".
Ancestors(parent, c) ==
    IF c = 0 THEN {} ELSE {c} \cup Ancestors(parent, parent[c])

RECURSIVE MergeBase(_, _, _)
\* merge_base(a, b): the nearest commit reachable from both.
MergeBase(parent, a, b) ==
    IF a = 0 THEN 0
    ELSE IF a \in Ancestors(parent, b) THEN a
    ELSE MergeBase(parent, parent[a], b)

RECURSIVE CommitsBetween(_, _, _)
\* commits_between(from, to): the ancestors of `to` not reachable from
\* `from`, oldest first.
CommitsBetween(parent, from, to) ==
    IF to = 0 \/ to \in Ancestors(parent, from) THEN <<>>
    ELSE Append(CommitsBetween(parent, from, parent[to]), to)

\* The commits a rebase of `tip` from `upstream` onto `target` moves: those
\* unique to the branch, which neither the upstream nor the target reaches.
RebaseRange(parent, upstream, tip, target) ==
    SelectSeq(CommitsBetween(parent, upstream, tip),
              LAMBDA c : c \notin Ancestors(parent, target))

\* The commit graph after n commits are replayed, one on another, on `target`.
Replay(parent, n, target) ==
    parent \o [k \in 1..n |-> IF k = 1 THEN target ELSE Len(parent) + k - 1]

\* The outcome of a rebase that replays: the range on top of `target`, or
\* a conflict that leaves the rebase in progress and the branch where it was.
RebaseReplay(r, branch, upstream, target, range, by) ==
    {[res |-> "ok",
      repo |-> [r EXCEPT !.parent = Replay(r.parent, Len(range), target),
                         !.tip[branch] = Len(r.parent) + Len(range),
                         !.head = branch]],
     [res |-> "Conflict",
      repo |-> [r EXCEPT !.head = branch,
                         !.rebase = [branch |-> branch, upstream |-> upstream,
                                     onto |-> target, by |-> by]]]}

\* rebase_onto(branch, upstream_hash, new_base_name): moves the commits of
\* `branch` that `upstream` does not reach onto the tip of newBase. A branch
\* whose range already sits on that tip stays as it is. The adapter refuses
\* while another rebase is in progress.
RebaseOnto(r, branch, upstream, newBase, by) ==
    LET target == r.tip[newBase]
        range  == RebaseRange(r.parent, upstream, r.tip[branch], target)
    IN  IF r.rebase # NoRebase THEN {[res |-> "error", repo |-> r]}
        ELSE IF range = <<>>
        THEN {[res |-> "ok", repo |-> [r EXCEPT !.tip[branch] = target, !.head = branch]]}
        ELSE IF r.parent[range[1]] = target
        THEN {[res |-> "ok", repo |-> [r EXCEPT !.head = branch]]}
        ELSE RebaseReplay(r, branch, upstream, target, range, by)

\* checkout(name): fails (DirtyWorktree), and always while a rebase is in
\* progress.
Checkout(r, name) ==
    {[res |-> "error", repo |-> r]}
    \cup {[res |-> "ok", repo |-> [r EXCEPT !.head = name]] :
            x \in IF r.rebase = NoRebase THEN {1} ELSE {}}

\* current_branch(): the branch checked out, or Detached in a rebase.
CurrentBranch(r) == IF r.rebase = NoRebase THEN r.head ELSE "Detached"

\* The bound on the commits leaves room for every outcome of a step.
HasRoom(outcomes) == \A o \in outcomes : Len(o.repo.parent) <= MaxCommits

\* ------------------------------------------------- the stack service (4.C)

\* The branches whose base is b, in lexicographic order.
ListAbove(st, b) ==
    SelectSeq(BranchOrder, LAMBDA x : st[x].name = b)

RECURSIVE ListUpstackFrom(_, _, _)
\* The pre-order traversal of the branches in `todo` and of their
\* descendants; `fuel` bounds the depth on a store that is no forest.
ListUpstackFrom(st, todo, fuel) ==
    IF todo = <<>> \/ fuel = 0 THEN <<>>
    ELSE <<Head(todo)>>
         \o ListUpstackFrom(st, ListAbove(st, Head(todo)), fuel - 1)
         \o ListUpstackFrom(st, Tail(todo), fuel)

\* list_upstack(b): b, then its descendants in pre-order.
ListUpstack(st, b) == ListUpstackFrom(st, <<b>>, Cardinality(Refs))

RECURSIVE ListDownstackFrom(_, _, _)
ListDownstackFrom(st, b, fuel) ==
    IF b = Trunk \/ fuel = 0 THEN <<>>
    ELSE <<b>> \o ListDownstackFrom(st, st[b].name, fuel - 1)

\* list_downstack(b): b, its base, the base of its base, ... short of trunk.
ListDownstack(st, b) == ListDownstackFrom(st, b, Cardinality(Branches))

\* ------------------------------------------------ the restack engine (4.D)

\* Step 3 of restack(b): the branch needs no restack.
IsRestacked(st, r, b) ==
    /\ r.tip[st[b].name] = st[b].hash
    /\ MergeBase(r.parent, r.tip[b], r.tip[st[b].name]) = st[b].hash

\* A slip: the new base hash is not recorded.
RestackUpsertDropped(st, b, newBaseHash) == st

\* Step 5 of restack(b): the store with base.hash of b set to the new hash.
RestackUpsert(st, b, newBaseHash) ==
    [st EXCEPT ![b].hash = newBaseHash]

\* restack(b): the possible outcomes [res, store, repo, rebased], where
\* rebased tells that rebase_onto was called.
Restack(st, r, b) ==
    IF b = Trunk \/ b \notin DOMAIN st
    THEN {[res |-> "error", store |-> st, repo |-> r, rebased |-> FALSE]}
    ELSE IF IsRestacked(st, r, b)
    THEN {[res |-> "AlreadyRestacked", store |-> st, repo |-> r, rebased |-> FALSE]}
    ELSE {[res |-> o.res,
           store |-> IF o.res = "ok"
                     THEN RestackUpsert(st, b, r.tip[st[b].name]) ELSE st,
           repo |-> o.repo,
           rebased |-> TRUE] :
            o \in RebaseOnto(r, b, st[b].hash, st[b].name, "restack")}

\* Restack under the context of the command (spec 5: the core checks for
\* cancellation before and after every adapter call). A context cancelled
\* before the call: Cancelled, and no adapter is called.
RestackCtx(ctx, st, r, b) ==
    IF ctx THEN {[res |-> "Cancelled", store |-> st, repo |-> r, rebased |-> FALSE]}
    ELSE Restack(st, r, b)

\* The context is cancelled while Restack runs: the check after the rebase
\* finds it, and the record is not written; or the check after the write
\* finds it, and the record is written whole.
RestackInterrupted(st, r, b) ==
    UNION {{[o EXCEPT !.res = "Cancelled", !.store = st],
            [o EXCEPT !.res = "Cancelled"]} :
                o \in {x \in Restack(st, r, b) : x.res = "ok"}}

\* Checkout under the context of the command.
CheckoutCtx(ctx, r, name) ==
    IF ctx THEN {[res |-> "Cancelled", repo |-> r]} ELSE Checkout(r, name)

\* ------------------------------------------------------------ the state

\* Between commands there is nothing to compare with.
NoSnapshot == [store |-> <<>>, repo |-> <<>>]

NoUpstack == [currentBranch |-> "", upstacks |-> <<>>, i |-> 0]

\* The two processes that run restack_upstack on the one repository.
Procs == {1, 2}

\* A process that runs no command.
NoProc == [pc |-> "idle", us |-> NoUpstack, result |-> "", calls |-> 0]

\* downstacks, newOrder, newTop and base are the locals of the code; doc is
\* the document the editor left, and edited and badAt record what it held:
\* its names in order, and the
\* place among them of the first name that is unknown or repeated (0: none).
\* editFile is the temporary file of the run, while it exists ("": none).
NoEdit == [downstacks |-> <<>>, newOrder |-> <<>>, newTop |-> "", base |-> "",
           i |-> 0, doc |-> <<>>, edited |-> <<>>, badAt |-> 0, editFile |-> ""]

\* Every branch reaches trunk along its bases.
IsForest(bm) ==
    \A b \in Branches :
        Len(ListDownstackFrom([x \in Branches |-> [name |-> bm[x]]], b,
                              Cardinality(Branches) + 1))
            <= Cardinality(Branches)

\* The commit of a ref in the initial repository: trunk is commit 1 and
\* every branch has one commit of its own on the tip of its base.
InitCommit(x) ==
    IF x = Trunk THEN 1
    ELSE 1 + CHOOSE k \in 1..Len(BranchOrder) : BranchOrder[k] = x

\* No await is polling.
NoAwait == [on |-> FALSE, change |-> FALSE, want |-> <<>>, last |-> <<>>]

\* No script is run.
TermOff ==
    /\ script = <<>>
    /\ ip = 0
    /\ exitCode = 0
    /\ lastSnapshot = <<>>
    /\ screen = <<>>
    /\ aw = NoAwait
    /\ tlog = <<>>
    /\ tpc = "off"

\* The repositories with the given bases of the branches, no command
\* running.
InitStack(bases) ==
    \E bm \in bases :
        /\ IsForest(bm)
        /\ repo = [parent |-> <<0>> \o [k \in 1..Len(BranchOrder) |->
                                          InitCommit(bm[BranchOrder[k]])],
                   tip    |-> [x \in Refs |-> InitCommit(x)],
                   head   |-> Trunk,
                   rebase |-> NoRebase]
        /\ store = [b \in Branches |-> [name |-> bm[b], hash |-> InitCommit(bm[b])]]
        /\ pc = "idle"
        /\ us = NoUpstack
        /\ de = NoEdit
        /\ result = ""
        /\ calls = <<>>
        /\ before = NoSnapshot
        /\ resumable = ""
        /\ cancelled = FALSE
        /\ procs = [p \in Procs |-> NoProc]
        /\ lock = 0

Init == InitStack([Branches -> Refs]) /\ TermOff

\* --------------------------------------------------- the user, between runs

\* The user commits on a branch or on trunk.
Commit ==
    /\ pc = "idle"
    /\ repo.rebase = NoRebase
    /\ Len(repo.parent) < MaxUserCommits
    /\ \E b \in Refs :
        repo' = [repo EXCEPT !.parent = Append(repo.parent, repo.tip[b]),
                             !.tip[b] = Len(repo.parent) + 1]
    /\ resumable' = ""
    /\ UNCHANGED <<store, pc, us, de, result, calls, before, cancelled>>
    /\ UNCHANGED <<twoVars, termVars>>

\* The user checks a branch out.
UserCheckout ==
    /\ pc = "idle"
    /\ repo.rebase = NoRebase
    /\ \E b \in Refs : b # repo.head /\ repo' = [repo EXCEPT !.head = b]
    /\ UNCHANGED <<store, pc, us, de, result, calls, before, resumable, cancelled>>
    /\ UNCHANGED <<twoVars, termVars>>

\* The user resolves the conflicts and completes the rebase in progress.
UserContinueRebase ==
    /\ pc = "idle"
    /\ repo.rebase # NoRebase
    /\ LET rb    == repo.rebase
           range == RebaseRange(repo.parent, rb.upstream, repo.tip[rb.branch], rb.onto)
       IN  /\ Len(repo.parent) + Len(range) <= MaxCommits
           /\ repo' = [repo EXCEPT !.parent = Replay(repo.parent, Len(range), rb.onto),
                                   !.tip[rb.branch] = Len(repo.parent) + Len(range),
                                   !.rebase = NoRebase]
           /\ resumable' = IF rb.by = "restack" THEN rb.branch ELSE ""
    /\ UNCHANGED <<store, pc, us, de, result, calls, before, cancelled>>
    /\ UNCHANGED <<twoVars, termVars>>

\* The user gives the rebase in progress up.
UserAbortRebase ==
    /\ pc = "idle"
    /\ repo.rebase # NoRebase
    /\ repo' = [repo EXCEPT !.rebase = NoRebase]
    /\ resumable' = ""
    /\ UNCHANGED <<store, pc, us, de, result, calls, before, cancelled>>
    /\ UNCHANGED <<twoVars, termVars>>

\* ------------------------------------------- upstackRestackCmd.Run

\* Lines 16-38: open the repository and the store, read the current branch,
\* list its upstack.
UpstackRestackStart ==
    /\ pc = "idle"
    /\ IF CurrentBranch(repo) = "Detached"
       THEN /\ pc' = "upstack_done"
            /\ result' = "error"
            /\ us' = NoUpstack
       ELSE /\ pc' = "upstack"
            /\ result' = ""
            /\ us' = [currentBranch |-> CurrentBranch(repo),
                      upstacks |-> ListUpstack(store, CurrentBranch(repo)),
                      i |-> 1]
    /\ calls' = <<>>
    /\ before' = [store |-> store, repo |-> repo]
    /\ resumable' = ""
    /\ UNCHANGED <<repo, store, de, cancelled>>
    /\ UNCHANGED <<twoVars, termVars>>

\* A slip: the branch the command started on is left out like trunk.
SkipsBranchOrCurrent(upstack, currentBranch) ==
    upstack = Trunk \/ upstack = currentBranch

\* Line 43: trunk never needs to be restacked.
SkipsBranch(upstack, currentBranch) == upstack = Trunk

\* A slip: the loop walks the list from its end.
LoopBranchBackwards(upstacks, i) == upstacks[Len(upstacks) + 1 - i]

\* The element of the upstack list the loop is at.
LoopBranch(upstacks, i) == upstacks[i]

\* A slip: a conflict is passed over like AlreadyRestacked.
LoopContinuesOnConflict(res) == res \in {"ok", "AlreadyRestacked", "Conflict"}

\* A slip: AlreadyRestacked ends the loop like an error.
LoopContinuesOnOk(res) == res = "ok"

\* A slip: the loop goes on after a cancelled Restack.
LoopContinuesOnCancelled(res) == res \in {"ok", "AlreadyRestacked", "Cancelled"}

\* Lines 48-60: what the loop does with the result of Restack: go on to the
\* next branch, or return the error.
LoopContinues(res) == res \in {"ok", "AlreadyRestacked"}

\* Lines 41-63: one iteration of the loop.
UpstackRestackLoop ==
    /\ pc = "upstack"
    /\ us.i <= Len(us.upstacks)
    /\ LET upstack == LoopBranch(us.upstacks, us.i)
       IN  IF SkipsBranch(upstack, us.currentBranch)
           THEN /\ us' = [us EXCEPT !.i = us.i + 1]
                /\ UNCHANGED <<repo, store, pc, result, calls, cancelled>>
           ELSE \E o \in RestackCtx(cancelled, store, repo, upstack)
                        \cup IF cancelled THEN {}
                             ELSE RestackInterrupted(store, repo, upstack) :
                  /\ HasRoom(Restack(store, repo, upstack))
                  /\ repo' = o.repo
                  /\ store' = o.store
                  /\ cancelled' = (cancelled \/ o.res = "Cancelled")
                  /\ calls' = Append(calls, [op |-> "Restack", branch |-> upstack,
                                             onto |-> store[upstack].name,
                                             res |-> o.res, rebased |-> o.rebased])
                  /\ IF LoopContinues(o.res)
                     THEN /\ us' = [us EXCEPT !.i = us.i + 1]
                          /\ UNCHANGED <<pc, result>>
                     ELSE /\ pc' = "upstack_done"
                          /\ result' = o.res
                          /\ UNCHANGED us
    /\ UNCHANGED <<de, before, resumable>>
    /\ UNCHANGED <<twoVars, termVars>>

\* A slip: the last branch of the upstack is checked out.
CheckoutLast(currentBranch, upstacks) == upstacks[Len(upstacks)]

\* Line 65: the branch that is checked out after the loop.
CheckoutBranch(currentBranch, upstacks) == currentBranch

\* Lines 65-70: on success, check out the original branch.
UpstackRestackCheckout ==
    /\ pc = "upstack"
    /\ us.i > Len(us.upstacks)
    /\ \E o \in CheckoutCtx(cancelled, repo,
                            CheckoutBranch(us.currentBranch, us.upstacks)) :
        /\ repo' = o.repo
        /\ calls' = Append(calls, [op |-> "Checkout",
                                   branch |-> CheckoutBranch(us.currentBranch,
                                                             us.upstacks),
                                   onto |-> "", res |-> o.res, rebased |-> FALSE])
        /\ result' = o.res
    /\ pc' = "upstack_done"
    /\ UNCHANGED <<store, us, de, before, resumable, cancelled>>
    /\ UNCHANGED <<twoVars, termVars>>

\* The context of a running restack_upstack is cancelled (an interrupt, a
\* deadline) between two steps of the command.
Cancel ==
    /\ pc = "upstack"
    /\ ~cancelled
    /\ cancelled' = TRUE
    /\ UNCHANGED <<repo, store, pc, us, de, result, calls, before, resumable>>
    /\ UNCHANGED <<twoVars, termVars>>

\* ------------------------------------------- downstackEditCmd.Run

\* --editor / $EDITOR: unset, or an editor.
Editors == {"", "vi"}

\* _editFooter: a blank line and the instructions, every one a comment.
_editFooter ==
    << <<>>,
       <<"#", " ", "E">>,
       <<"#", " ", "T">>,
       <<"#", " ", "B">>,
       <<"#", " ", "B">>,
       <<"#">>,
       <<"#", " ", "S">>,
       <<"#", " ", "D">> >>

\* fmt.Fprintln(file, branch): the line of a branch, one character each.
BranchLine(branch) == <<branch>>

\* os.CreateTemp("", "gs-edit-*.txt"): the name of the temporary file.
EditFileName == "gs-edit.txt"

\* A slip: the branches are written bottom first.
createEditFileBottomFirst(branches) ==
    [k \in 1..Len(branches) |-> BranchLine(branches[Len(branches) + 1 - k])]
        \o _editFooter

\* createEditFile: the branches, one a line, leaf first, then the footer.
createEditFile(branches) ==
    [k \in 1..Len(branches) |-> BranchLine(branches[k])] \o _editFooter

\* The lines a user may leave in the document of a chain: its branches,
\* the leaf with blanks around it, and the trunk (the footer holds the
\* comments and a blank line).
Lines(downstacks) ==
    {BranchLine(downstacks[k]) : k \in 2..Len(downstacks)}
    \cup {<<" ", downstacks[1], " ">>, <<"m", "a", "i", "n">>}

RECURSIVE SeqsUpTo(_, _)
\* The sequences over S of length n or less.
SeqsUpTo(S, n) ==
    IF n = 0 THEN {<<>>}
    ELSE LET shorter == SeqsUpTo(S, n - 1)
         IN  shorter \cup {Append(q, x) : q \in shorter, x \in S}

\* What the editor may leave in the file: the document as it was written,
\* the instructions alone, or any short document.
EditedDocs(downstacks) ==
    {createEditFile(downstacks), _editFooter}
    \cup SeqsUpTo(Lines(downstacks), MaxDocLines)

RECURSIVE TrimLeft(_)
TrimLeft(bs) ==
    IF bs # <<>> /\ Head(bs) = " " THEN TrimLeft(Tail(bs)) ELSE bs

RECURSIVE TrimRight(_)
TrimRight(bs) ==
    IF bs # <<>> /\ bs[Len(bs)] = " "
    THEN TrimRight(SubSeq(bs, 1, Len(bs) - 1)) ELSE bs

\* bytes.TrimSpace
TrimSpace(bs) == TrimRight(TrimLeft(bs))

RECURSIVE LineName(_)
\* string(bs)
LineName(bs) == IF bs = <<>> THEN "" ELSE Head(bs) \o LineName(Tail(bs))

\* A slip: only a blank line is skipped.
IsSkippedBlank(bs) == Len(bs) = 0

\* Line 97: a blank line or a comment is skipped.
IsSkipped(bs) == Len(bs) = 0 \/ bs[1] = "#"

\* A slip: any name is taken for an original branch.
IsOriginalOrNot(originalBranches, name) == TRUE

\* Line 102: the name is one of the original branches not read so far.
IsOriginal(originalBranches, name) == name \in originalBranches

\* A slip: a name that was read stays an original branch.
DeleteNothing(originalBranches, name) == originalBranches

\* Line 106: a name that was read is no longer an original branch.
DeleteName(originalBranches, name) == originalBranches \ {name}

RECURSIVE Scan(_, _, _)
\* Lines 93-109: the scan of the edited file. It stops at the first name
\* that is not (or no longer) among the original branches.
Scan(lines, originalBranches, newOrder) ==
    IF lines = <<>> THEN [err |-> FALSE, newOrder |-> newOrder]
    ELSE LET bs == TrimSpace(Head(lines))
         IN  IF IsSkipped(bs)
             THEN Scan(Tail(lines), originalBranches, newOrder)
             ELSE IF ~IsOriginal(originalBranches, LineName(bs))
             THEN [err |-> TRUE, newOrder |-> newOrder]
             ELSE Scan(Tail(lines), DeleteName(originalBranches, LineName(bs)),
                       Append(newOrder, LineName(bs)))

\* The names a document holds, in order: its lines but the blank ones and
\* the comments, without the blanks around them.
DocNames(doc) ==
    LET kept == SelectSeq(doc, LAMBDA l : TrimSpace(l) # <<>> /\ TrimSpace(l)[1] # "#")
    IN  [k \in 1..Len(kept) |-> LineName(TrimSpace(kept[k]))]

\* The place of the first name that is not in the chain or that occurred
\* before; 0 when there is none.
BadAt(names, downstacks) ==
    LET bad == {k \in 1..Len(names) :
                    \/ names[k] \notin {downstacks[j] : j \in 1..Len(downstacks)}
                    \/ \E j \in 1..(k - 1) : names[j] = names[k]}
    IN  IF bad = {} THEN 0 ELSE CHOOSE k \in bad : \A j \in bad : k <= j

\* A slip: the list is left in the order of the document.
ReverseOmitted(s) == s

\* slices.Reverse
Reverse(s) == [k \in 1..Len(s) |-> s[Len(s) + 1 - k]]

\* The set of the elements of a sequence.
Range(s) == {s[k] : k \in 1..Len(s)}

\* onto(x, new_base), the re-parent primitive (branchOntoCmd.Run): rebase x
\* from its old base hash onto the new base, then record the new base.
Onto(st, r, x, newBase) ==
    {[res |-> o.res,
      store |-> IF o.res = "ok"
                THEN [st EXCEPT ![x] = [name |-> newBase, hash |-> o.repo.tip[newBase]]]
                ELSE st,
      repo |-> o.repo] :
        o \in RebaseOnto(r, x, st[x].hash, newBase, "onto")}

\* cmd.Name, or the current branch for want of one (lines 43-49).
EditName(arg) == IF arg = "" THEN CurrentBranch(repo) ELSE arg

\* Where the command stands before it creates the file (lines 27-68):
\* "edit" when there is something to edit, or the result it returns.
EditPrecheck(editor, arg) ==
    IF editor = "" THEN "error"
    ELSE IF EditName(arg) = "Detached" THEN "error"
    ELSE IF EditName(arg) = Trunk THEN "error"
    ELSE IF Len(ListDownstack(store, EditName(arg))) = 1 THEN "nothing to edit"
    ELSE "edit"

\* The command returns res before the scan of the document; editFile is
\* the temporary file it has created by then ("": none). No statement of
\* Run removes the file.
EditEnds(res, editFile) ==
    /\ pc' = "edit_done"
    /\ result' = res
    /\ de' = [NoEdit EXCEPT !.editFile = editFile]

\* Where the command stands when it returns res after the scan of the
\* document, with its result and its locals. Of a document
\* with a bad name the record keeps the place of that name, and a document
\* without a name is kept as it is.
EditStops(res, doc, downstacks) ==
    [pc |-> "edit_done",
     result |-> res,
     de |-> [NoEdit EXCEPT !.downstacks = downstacks,
                           !.doc = IF DocNames(doc) = <<>> THEN doc ELSE <<>>,
                           !.badAt = BadAt(DocNames(doc), downstacks),
                           !.editFile = EditFileName]]

\* A slip: the loop ranges over the original chain, bottom first.
LoopListOriginal(newOrder, downstacks) ==
    [k \in 1..Len(downstacks) |-> downstacks[Len(downstacks) + 1 - k]]

\* Line 123: the list the re-parenting loop ranges over.
LoopList(newOrder, downstacks) == newOrder

\* A slip: the leaf of the original chain is taken for the new top.
NewTopOriginal(newOrder, downstacks) == downstacks[1]

\* Line 119: the new top is the first name of the list as it was read,
\* before the list is reversed.
NewTop(newOrder, downstacks) == newOrder[1]

\* Lines 93-120: the edited document is scanned; the loop starts on the
\* reversed list, unless a name is invalid or the list is empty. The value
\* is where the command stands then, with its result and its locals.
EditScanned(doc, downstacks) ==
    LET scan == Scan(doc, Range(downstacks), <<>>)
    IN  IF scan.err THEN EditStops("InvalidEdit", doc, downstacks)
        ELSE IF Len(scan.newOrder) = 0 THEN EditStops("aborted", doc, downstacks)
        ELSE [pc |-> "edit",
              result |-> "",
              de |-> [downstacks |-> downstacks,
                      newOrder |-> LoopList(Reverse(scan.newOrder), downstacks),
                      newTop |-> NewTop(scan.newOrder, downstacks),
                      base |-> Trunk,
                      i |-> 1,
                      doc |-> doc,
                      edited |-> DocNames(doc),
                      badAt |-> BadAt(DocNames(doc), downstacks),
                      editFile |-> EditFileName]]

\* The chains there is something to edit in: two branches or more, no
\* branch twice.
Chains ==
    {c \in SeqsUpTo(Branches, Cardinality(Branches)) :
        Len(c) >= 2 /\ Cardinality(Range(c)) = Len(c)}

\* For every chain, where the command may stand after the scan, over the
\* documents the editor may have left.
ScanTable ==
    {[downstacks |-> c,
      scanned |-> {EditScanned(doc, c) : doc \in EditedDocs(c)}] : c \in Chains}

\* Where the command may stand after the scan of the document of a chain.
EditsScanned(downstacks) ==
    (CHOOSE row \in ScanTable : row.downstacks = downstacks).scanned

\* The repository has room for a commit of every branch of the chain: the
\* bound on the commits does not stop a re-parenting half-way.
EditHasRoom(downstacks) == Len(repo.parent) + Len(downstacks) <= MaxCommits

\* cmd.Name as given: no name, or a branch other than the current one
\* (naming the current branch is the same as giving no name).
EditArgs == {""} \cup (Refs \ {CurrentBranch(repo)})

\* Lines 27-120: everything up to the re-parenting loop.
DownstackEditStart ==
    /\ pc = "idle"
    /\ \E editor \in Editors, arg \in EditArgs :
        IF EditPrecheck(editor, arg) # "edit"
        THEN EditEnds(EditPrecheck(editor, arg), "")
        ELSE /\ EditHasRoom(ListDownstack(store, EditName(arg)))
             /\ \/ EditEnds("error", "")
                \/ EditEnds("EditorFailed", EditFileName)
                \/ EditEnds("error", EditFileName)
                \/ \E at \in EditsScanned(ListDownstack(store, EditName(arg))) :
                       /\ pc' = at.pc
                       /\ result' = at.result
                       /\ de' = at.de
    /\ calls' = <<>>
    /\ before' = [store |-> store, repo |-> repo]
    /\ resumable' = ""
    /\ UNCHANGED <<repo, store, us, cancelled>>
    /\ UNCHANGED <<twoVars, termVars>>

\* A slip: the error of a failed onto is dropped.
OntoFailedIgnored(res) == FALSE

\* Lines 128-130: the loop returns the error of a failed onto.
OntoFailed(res) == res # "ok"

\* A slip: the base stays what it was.
NextBaseKept(branch, base) == base

\* Line 131: the next branch goes onto the one just moved.
NextBase(branch, base) == branch

\* Lines 123-132: one iteration of the re-parenting loop.
DownstackEditOnto ==
    /\ pc = "edit"
    /\ de.i <= Len(de.newOrder)
    /\ LET branch == de.newOrder[de.i]
       IN  \E o \in Onto(store, repo, branch, de.base) :
             /\ HasRoom(Onto(store, repo, branch, de.base))
             /\ repo' = o.repo
             /\ store' = o.store
             /\ calls' = Append(calls, [op |-> "onto", branch |-> branch,
                                        onto |-> de.base, res |-> o.res,
                                        rebased |-> TRUE])
             /\ IF OntoFailed(o.res)
                THEN /\ pc' = "edit_done"
                     /\ result' = o.res
                     /\ UNCHANGED de
                ELSE /\ de' = [de EXCEPT !.base = NextBase(branch, de.base),
                                         !.i = de.i + 1]
                     /\ UNCHANGED <<pc, result>>
    /\ UNCHANGED <<us, before, resumable, cancelled>>
    /\ UNCHANGED <<twoVars, termVars>>

\* Lines 134-136: check out the new top.
DownstackEditCheckout ==
    /\ pc = "edit"
    /\ de.i > Len(de.newOrder)
    /\ \E o \in Checkout(repo, de.newTop) :
        /\ repo' = o.repo
        /\ calls' = Append(calls, [op |-> "Checkout", branch |-> de.newTop,
                                   onto |-> "", res |-> o.res, rebased |-> FALSE])
        /\ result' = o.res
    /\ pc' = "edit_done"
    /\ UNCHANGED <<store, us, de, before, resumable, cancelled>>
    /\ UNCHANGED <<twoVars, termVars>>

\* The command has returned: the process ends.
Return ==
    /\ pc \in {"upstack_done", "edit_done"}
    /\ pc' = "idle"
    /\ us' = NoUpstack
    /\ de' = NoEdit
    /\ result' = ""
    /\ calls' = <<>>
    /\ before' = NoSnapshot
    /\ cancelled' = FALSE
    /\ UNCHANGED <<repo, store, resumable>>
    /\ UNCHANGED <<twoVars, termVars>>

\* ------------------------- two invocations of upstackRestackCmd.Run

\* A slip: the lock is taken whoever holds it.
TryLockUnguarded(holder, p) == p

\* The write lock of the store, which doubles as the lock of the worktree
\* (spec 5): the holder after process p has tried to take it.
TryLock(holder, p) == IF holder = 0 THEN p ELSE holder

\* Lines 28-38, in process p that holds the lock: read the current branch
\* and list its upstack.
ProcEnters(p) ==
    IF CurrentBranch(repo) = "Detached"
    THEN [pc |-> "done", us |-> NoUpstack, result |-> "error", calls |-> 0]
    ELSE [pc |-> "upstack",
          us |-> [currentBranch |-> CurrentBranch(repo),
                  upstacks |-> ListUpstack(store, CurrentBranch(repo)),
                  i |-> 1],
          result |-> "", calls |-> 0]

\* Lines 16-38 in process p: ensureStore opens the store and takes its
\* lock, or blocks on it while another process holds it.
ProcStart(p) ==
    /\ procs[p].pc \in {"idle", "waiting"}
    /\ lock' = TryLock(lock, p)
    /\ procs' = [procs EXCEPT ![p] = IF lock' = p THEN ProcEnters(p)
                                     ELSE [NoProc EXCEPT !.pc = "waiting"]]
    /\ lock' # lock \/ procs' # procs
    /\ UNCHANGED <<repo, store, cmdVars, termVars>>

\* The lock was not released within the timeout: ensureStore fails with
\* StoreBusy and Run returns the error (lines 23-26).
ProcStoreBusy(p) ==
    /\ procs[p].pc = "waiting"
    /\ lock \notin {0, p}
    /\ procs' = [procs EXCEPT ![p] = [NoProc EXCEPT !.pc = "done",
                                                    !.result = "StoreBusy"]]
    /\ UNCHANGED <<repo, store, lock, cmdVars, termVars>>

\* Lines 41-63 in process p: one iteration of the loop.
ProcLoop(p) ==
    /\ procs[p].pc = "upstack"
    /\ procs[p].us.i <= Len(procs[p].us.upstacks)
    /\ LET u       == procs[p].us
           upstack == LoopBranch(u.upstacks, u.i)
       IN  IF SkipsBranch(upstack, u.currentBranch)
           THEN /\ procs' = [procs EXCEPT ![p].us.i = u.i + 1]
                /\ UNCHANGED <<repo, store>>
           ELSE \E o \in Restack(store, repo, upstack) :
                  /\ HasRoom(Restack(store, repo, upstack))
                  /\ repo' = o.repo
                  /\ store' = o.store
                  /\ procs' = [procs EXCEPT ![p] =
                        IF LoopContinues(o.res)
                        THEN [@ EXCEPT !.us.i = u.i + 1, !.calls = @ + 1]
                        ELSE [@ EXCEPT !.pc = "done", !.result = o.res,
                                       !.calls = @ + 1]]
    /\ UNCHANGED <<lock, cmdVars, termVars>>

\* Lines 65-70 in process p: on success, check out the original branch.
ProcCheckout(p) ==
    /\ procs[p].pc = "upstack"
    /\ procs[p].us.i > Len(procs[p].us.upstacks)
    /\ \E o \in Checkout(repo, CheckoutBranch(procs[p].us.currentBranch,
                                              procs[p].us.upstacks)) :
        /\ repo' = o.repo
        /\ procs' = [procs EXCEPT ![p] = [@ EXCEPT !.pc = "done",
                                                   !.result = o.res,
                                                   !.calls = @ + 1]]
    /\ UNCHANGED <<store, lock, cmdVars, termVars>>

\* Process p ends: the lock it holds is released.
ProcReturn(p) ==
    /\ procs[p].pc = "done"
    /\ procs' = [procs EXCEPT ![p] = NoProc]
    /\ lock' = IF lock = p THEN 0 ELSE lock
    /\ UNCHANGED <<repo, store, cmdVars, termVars>>

\* No process runs a command.
AllIdle == \A p \in Procs : procs[p].pc = "idle"

\* The user works between the runs of the two processes.
UserBetween == AllIdle /\ (Commit \/ UserCheckout \/ UserAbortRebase)

NextTwo ==
    \/ UserBetween
    \/ \E p \in Procs : ProcStart(p)
    \/ \E p \in Procs : ProcStoreBusy(p)
    \/ \E p \in Procs : ProcLoop(p)
    \/ \E p \in Procs : ProcCheckout(p)
    \/ \E p \in Procs : ProcReturn(p)

\* Two processes run restack_upstack on one repository.
SpecTwo == Init /\ [][NextTwo]_vars

\* ------------------------------------------- termtest.WithTerm

\* What the emulator may show: nothing, the text "a", or other text.
Screens == {<<>>, <<"a">>, <<"b">>}

\* Snapshot (lines 264-275): the rows of the screen, and a newline at the
\* end whatever the screen holds.
Snapshot(scr) == scr \o <<"\n">>

\* bytes.Contains
Contains(snap, want) ==
    \E k \in 0..(Len(snap) - Len(want)) :
        SubSeq(snap, k + 1, k + Len(want)) = want

RECURSIVE EscapeQuotes(_)
\* strings.ReplaceAll(rest, `"`, `\"`) (line 181)
EscapeQuotes(t) ==
    IF t = <<>> THEN <<>>
    ELSE (IF Head(t) = "\"" THEN <<"\\", "\"">> ELSE <<Head(t)>>)
             \o EscapeQuotes(Tail(t))

\* The character a backslash and c stand for in a Go string.
Escaped(c) == IF c = "n" THEN "\n" ELSE c

RECURSIVE Unquote(_)
\* strconv.Unquote of the text between two double quotes (line 183): a
\* backslash takes the next character with it, which must be one that Go
\* allows there; a bare quote, a backslash at the end (it would take the
\* closing quote) and an unknown escape are errors.
Unquote(t) ==
    IF t = <<>> THEN [err |-> FALSE, keys |-> <<>>]
    ELSE IF Head(t) = "\"" THEN [err |-> TRUE, keys |-> <<>>]
    ELSE IF Head(t) = "\\"
    THEN IF Len(t) < 2 \/ t[2] \notin {"n", "\\", "\""}
         THEN [err |-> TRUE, keys |-> <<>>]
         ELSE LET more == Unquote(Tail(Tail(t)))
              IN  [err |-> more.err,
                   keys |-> IF more.err THEN <<>> ELSE <<Escaped(t[2])>> \o more.keys]
    ELSE LET more == Unquote(Tail(t))
         IN  [err |-> more.err,
              keys |-> IF more.err THEN <<>> ELSE <<Head(t)>> \o more.keys]

\* The texts of a feed command: an escape, a quote, an unknown escape, and
\* a quote the script has escaped itself.
FeedTexts == {<<"\\", "n">>, <<"\"">>, <<"\\", "q">>, <<"\\", "\"">>}

\* The commands of a script, as strings.Cut splits a line (line 115).
Commands ==
    {[cmd |-> "await", rest |-> r] : r \in {<<>>, <<"a">>}}
    \cup {[cmd |-> "snapshot", rest |-> <<>>]}
    \cup {[cmd |-> "feed", rest |-> r] : r \in FeedTexts}

\* WithTerm starts on a script, the child process in its terminal.
InitTerm ==
    /\ InitStack({[b \in Branches |-> Trunk]})
    /\ script \in SeqsUpTo(Commands, MaxScript)
    /\ ip = 1
    /\ exitCode = 0
    /\ lastSnapshot = <<>>
    /\ screen = <<>>
    /\ aw = NoAwait
    /\ tlog = <<>>
    /\ tpc = "run"

\* The state of the stack commands, which WithTerm leaves alone.
stackVars == <<repo, store, cmdVars, twoVars>>

\* The loop is at a command to execute.
AtCommand(cmd) ==
    /\ tpc = "run"
    /\ ~aw.on
    /\ ip <= Len(script)
    /\ script[ip].cmd = cmd

\* The command is over with outcome what; the loop goes on to the next.
NextCommand(what) ==
    /\ ip' = ip + 1
    /\ tlog' = Append(tlog, what)

\* The child process writes to the terminal.
ScreenChange ==
    /\ tpc = "run"
    /\ screen' \in Screens \ {screen}
    /\ UNCHANGED <<script, ip, exitCode, lastSnapshot, aw, tlog, tpc, stackVars>>

\* Lines 117-138: await chooses what to wait for: the text given, or a
\* change from the last snapshot, which it takes; with neither it logs
\* and goes on to the next command.
TermAwait ==
    /\ AtCommand("await")
    /\ LET rest == script[ip].rest
       IN  IF Len(rest) > 0
           THEN /\ aw' = [on |-> TRUE, change |-> FALSE, want |-> rest, last |-> <<>>]
                /\ UNCHANGED <<ip, tlog, lastSnapshot>>
           ELSE IF Len(lastSnapshot) > 0
           THEN /\ aw' = [on |-> TRUE, change |-> TRUE, want |-> lastSnapshot,
                          last |-> <<>>]
                /\ lastSnapshot' = <<>>
                /\ UNCHANGED <<ip, tlog>>
           ELSE /\ NextCommand("skipped")
                /\ UNCHANGED <<aw, lastSnapshot>>
    /\ UNCHANGED <<script, exitCode, screen, tpc, stackVars>>

\* Lines 125-133: the match function of the await.
Match(a, snap) ==
    IF a.change THEN snap # a.want ELSE Contains(snap, a.want)

\* A slip: an await that matches clears the exit code.
ExitAfterAwaitReset(code, matched) == IF matched THEN 0 ELSE 1

\* Lines 153-160: the exit code after an await.
ExitAfterAwait(code, matched) == IF matched THEN code ELSE 1

\* Lines 165-169: an await without argument saves its last snapshot.
SavedSnapshot(rest, last, saved) == IF Len(rest) = 0 THEN last ELSE saved

\* Lines 144-151: the await takes a snapshot; on a match it is over.
TermPoll ==
    /\ tpc = "run"
    /\ aw.on
    /\ LET last == Snapshot(screen)
       IN  IF Match(aw, last)
           THEN /\ exitCode' = ExitAfterAwait(exitCode, TRUE)
                /\ lastSnapshot' = SavedSnapshot(script[ip].rest, last, lastSnapshot)
                /\ aw' = NoAwait
                /\ NextCommand("matched")
           ELSE /\ aw' = [aw EXCEPT !.last = last]
                /\ UNCHANGED <<exitCode, lastSnapshot, ip, tlog>>
    /\ UNCHANGED <<script, screen, tpc, stackVars>>

\* Lines 144, 153-169: the second of the await is over and nothing
\* matched: the exit code is 1. (A process held up for the whole second
\* has taken no snapshot at all: last is empty then.)
TermTimeout ==
    /\ tpc = "run"
    /\ aw.on
    /\ exitCode' = ExitAfterAwait(exitCode, FALSE)
    /\ lastSnapshot' = SavedSnapshot(script[ip].rest, aw.last, lastSnapshot)
    /\ aw' = NoAwait
    /\ NextCommand("failed")
    /\ UNCHANGED <<script, screen, tpc, stackVars>>

\* Lines 171-178: snapshot.
TermSnapshot ==
    /\ AtCommand("snapshot")
    /\ lastSnapshot' = Snapshot(screen)
    /\ NextCommand("snapshot")
    /\ UNCHANGED <<script, exitCode, screen, aw, tpc, stackVars>>

\* Lines 180-191: feed. A text that cannot be unquoted ends WithTerm with
\* 1; an error of FeedKeys is logged only.
TermFeed ==
    /\ AtCommand("feed")
    /\ IF Unquote(EscapeQuotes(script[ip].rest)).err
       THEN /\ exitCode' = 1
            /\ tpc' = "done"
            /\ tlog' = Append(tlog, "unquote")
            /\ UNCHANGED ip
       ELSE /\ NextCommand("fed")
            /\ UNCHANGED <<exitCode, tpc>>
    /\ UNCHANGED <<script, lastSnapshot, screen, aw, stackVars>>

\* Lines 74-79, 100-105, 195: the script is at its end; WithTerm returns
\* exitCode, which a failure to close the emulator or the file sets to 1.
TermEnd ==
    /\ tpc = "run"
    /\ ~aw.on
    /\ ip > Len(script)
    /\ tpc' = "done"
    /\ exitCode' \in {exitCode, 1}
    /\ UNCHANGED <<script, ip, lastSnapshot, screen, aw, tlog, stackVars>>

NextTerm ==
    \/ ScreenChange
    \/ TermAwait
    \/ TermPoll
    \/ TermTimeout
    \/ TermSnapshot
    \/ TermFeed
    \/ TermEnd

\* WithTerm runs a script.
SpecTerm == InitTerm /\ [][NextTerm]_vars

Next ==
    \/ Commit
    \/ UserCheckout
    \/ UserContinueRebase
    \/ UserAbortRebase
    \/ UpstackRestackStart
    \/ UpstackRestackLoop
    \/ UpstackRestackCheckout
    \/ Cancel
    \/ DownstackEditStart
    \/ DownstackEditOnto
    \/ DownstackEditCheckout
    \/ Return

Spec == Init /\ [][Next]_vars

TypeOK ==
    /\ pc \in {"idle", "upstack", "upstack_done", "edit", "edit_done"}
    /\ DOMAIN store = Branches
    /\ Len(repo.parent) <= MaxCommits
\* ---------------------------------------------------------------- claims

\* The places of the calls log that hold a call of Restack.
RestackCalls == {k \in 1..Len(calls) : calls[k].op = "Restack"}

\* The branch is aligned on its base: the merge base with its base is the
\* recorded base hash, and that is the tip of the base.
Aligned(b) ==
    /\ MergeBase(repo.parent, repo.tip[b], repo.tip[store[b].name]) = store[b].hash
    /\ store[b].hash = repo.tip[store[b].name]

\* C1: in restack_upstack, Restack is called on a parent before it is called
\* on any of its children: when Restack is called on a branch whose base is
\* in the upstack (trunk aside), an earlier call restacked the base or found
\* it restacked; so the base hash a restacked branch got is still the tip of
\* its base.
C1_ParentBeforeChild ==
    pc \in {"upstack", "upstack_done"} =>
        \A k \in RestackCalls :
            LET c == calls[k].branch
                p == store[c].name
            IN  /\ (p # Trunk /\ p \in Range(us.upstacks)) =>
                       \E j \in RestackCalls :
                           /\ j < k
                           /\ calls[j].branch = p
                           /\ calls[j].res \in {"ok", "AlreadyRestacked"}
                /\ calls[k].res = "ok" => store[c].hash = repo.tip[p]

\* C1 witness: a parent and then its child were both rebased, and the
\* command succeeded.
C1_Witness ==
    /\ pc = "upstack_done"
    /\ result = "ok"
    /\ \E j, k \in RestackCalls :
        /\ j < k
        /\ calls[j].res = "ok" /\ calls[j].rebased
        /\ calls[k].res = "ok" /\ calls[k].rebased
        /\ store[calls[k].branch].name = calls[j].branch
        /\ repo.tip[calls[j].branch] # before.repo.tip[calls[j].branch]

\* The non-trunk branches among the first n of the upstack list, in order.
Restackable(n) ==
    SelectSeq(SubSeq(us.upstacks, 1, n), LAMBDA x : x # Trunk)

\* C2: a Conflict on branch x aborts restack_upstack at x: the conflicting
\* call is the last call, the command returns the conflict, the calls made
\* are those on the branches up to x in list order, the records of x and of
\* every later branch are as before the command, every branch restacked
\* before x keeps its updated base hash, and the rebase of x is in progress.
C2_ConflictAborts ==
    pc \in {"upstack", "upstack_done"} =>
        \A k \in RestackCalls :
            calls[k].res = "Conflict" =>
                /\ k = Len(calls)
                /\ pc = "upstack_done"
                /\ result = "Conflict"
                /\ calls[k].branch = us.upstacks[us.i]
                /\ [j \in 1..Len(calls) |-> calls[j].branch] = Restackable(us.i)
                /\ \A j \in us.i..Len(us.upstacks) :
                       us.upstacks[j] # Trunk =>
                           store[us.upstacks[j]] = before.store[us.upstacks[j]]
                /\ \A j \in 1..(k - 1) :
                       calls[j].res = "ok" =>
                           /\ store[calls[j].branch].hash
                                  = repo.tip[store[calls[j].branch].name]
                           /\ store[calls[j].branch].name
                                  = before.store[calls[j].branch].name
                /\ repo.rebase.branch = calls[k].branch

\* C2 witness: the first branch was rebased and its record updated, the
\* second conflicted, and a third was never reached.
C2_Witness ==
    /\ pc = "upstack_done"
    /\ result = "Conflict"
    /\ Len(calls) = 2
    /\ calls[1].res = "ok" /\ calls[1].rebased
    /\ store[calls[1].branch] # before.store[calls[1].branch]
    /\ us.i < Len(us.upstacks)

\* C3: after a successful restack_upstack(b), every non-trunk branch of
\* list_upstack(b) is aligned on its base, those that Restack found
\* AlreadyRestacked included.
C3_UpstackAligned ==
    (pc = "upstack_done" /\ result = "ok") =>
        /\ us.upstacks = ListUpstack(store, us.currentBranch)
        /\ \A x \in Range(us.upstacks) \ {Trunk} : Aligned(x)

\* C3 witness: a successful run in which one branch needed no restack and
\* another, its child, was rebased.
C3_Witness ==
    /\ pc = "upstack_done"
    /\ result = "ok"
    /\ \E j, k \in RestackCalls :
        /\ calls[j].res = "AlreadyRestacked"
        /\ calls[k].res = "ok" /\ calls[k].rebased
        /\ store[calls[k].branch].name = calls[j].branch

\* C4: restack is idempotent: right after a successful restack(b), a second
\* restack(b) returns AlreadyRestacked, calls no rebase_onto and leaves the
\* store and the repository (worktree included) as they are.
C4_RestackIdempotent ==
    (/\ pc \in {"upstack", "upstack_done"}
     /\ calls # <<>>
     /\ calls[Len(calls)].op = "Restack"
     /\ calls[Len(calls)].res = "ok") =>
        Restack(store, repo, calls[Len(calls)].branch)
            = {[res |-> "AlreadyRestacked", store |-> store, repo |-> repo,
                rebased |-> FALSE]}

\* C4 witness: a restack that replayed commits has just succeeded.
C4_Witness ==
    /\ pc = "upstack"
    /\ calls # <<>>
    /\ calls[Len(calls)].op = "Restack"
    /\ calls[Len(calls)].res = "ok"
    /\ repo.tip[calls[Len(calls)].branch]
           # before.repo.tip[calls[Len(calls)].branch]
    /\ store # before.store

\* C5: resumption after a conflict: restack(b) returned Conflict, the store
\* still holds the old base hash, and the user has completed the rebase, so
\* that the merge base of b and its base is the tip of the base. Then
\* restack(b) finds the rebase done in step 3, without a call of
\* rebase_onto and without touching the commits of b, and records the tip
\* of the base as the base hash.
C5_ResumeFinalises ==
    (/\ pc = "idle"
     /\ resumable # ""
     /\ store[resumable].hash # repo.tip[store[resumable].name]
     /\ MergeBase(repo.parent, repo.tip[resumable], repo.tip[store[resumable].name])
            = repo.tip[store[resumable].name]) =>
        \A o \in Restack(store, repo, resumable) :
            /\ ~o.rebased
            /\ o.repo.tip = repo.tip
            /\ o.repo.parent = repo.parent
            /\ o.store[resumable].hash = repo.tip[store[resumable].name]
\* The places of the calls log that hold a call of onto.
OntoCalls == {k \in 1..Len(calls) : calls[k].op = "onto"}

\* Every re-parent of the running edit has succeeded.
EditReparented ==
    /\ pc \in {"edit", "edit_done"}
    /\ de.edited # <<>>
    /\ de.badAt = 0
    /\ Cardinality({k \in OntoCalls : calls[k].res = "ok"}) = Len(de.edited)

\* C6: an edited document that is a permutation of the whole chain, every
\* onto succeeding, leaves a store whose chain is the new order: the last
\* name of the document is based on trunk and every other name on the name
\* after it, so that the downstack of the new top is the document.
C6_PermutationReorders ==
    (EditReparented /\ Len(de.edited) = Len(de.downstacks)) =>
        /\ \A k \in 1..Len(de.edited) :
               store[de.edited[k]].name
                   = IF k = Len(de.edited) THEN Trunk ELSE de.edited[k + 1]
        /\ ListDownstack(store, de.edited[1]) = de.edited

\* C6 witness: the chain main -> A -> B -> C was edited to C, A, B and every
\* re-parent succeeded.
C6_Witness ==
    /\ EditReparented
    /\ de.downstacks = <<"C", "B", "A">>
    /\ de.edited = <<"C", "A", "B">>
    /\ store # before.store

\* C7: a branch of the original chain that the edited document omits keeps
\* its record, and onto is never called to move it.
C7_OmittedUntouched ==
    pc \in {"edit", "edit_done"} =>
        \A b \in Range(de.downstacks) \ Range(de.edited) :
            /\ store[b] = before.store[b]
            /\ \A k \in OntoCalls : calls[k].branch # b

\* C7 witness: an edit that omitted a branch of the chain has re-parented
\* the others onto new bases.
C7_Witness ==
    /\ EditReparented
    /\ Range(de.downstacks) \ Range(de.edited) # {}
    /\ Len(de.edited) = 2
    /\ \A k \in 1..Len(de.edited) :
           store[de.edited[k]].name # before.store[de.edited[k]].name

\* C8: a document with an unknown or a repeated name fails with InvalidEdit
\* before the first re-parent: no call of onto or checkout is made, and the
\* store and the repository are as before, wherever the bad name stands.
C8_InvalidEditNoChange ==
    (pc \in {"edit", "edit_done"} /\ de.badAt # 0) =>
        /\ pc = "edit_done"
        /\ result = "InvalidEdit"
        /\ calls = <<>>
        /\ store = before.store
        /\ repo = before.repo

\* C8 witness: the edit failed on a bad name that came after valid ones.
C8_Witness ==
    /\ pc = "edit_done"
    /\ result = "InvalidEdit"
    /\ de.badAt = 3
    /\ Len(de.downstacks) = 3

\* C9: the graph invariants hold in every state: every record's base is
\* trunk or a tracked branch, and every branch reaches trunk along its
\* bases (the base relation is acyclic, with trunk its only root).
C9_GraphInvariants ==
    /\ DOMAIN store = Branches
    /\ \A b \in Branches : store[b].name \in Refs
    /\ \A b \in Branches : store[b].name # b
    /\ IsForest([b \in Branches |-> store[b].name])

\* C9 witness: between two re-parents of an edit that reorders a chain, a
\* first branch has its new base and the others still have their old ones.
C9_Witness ==
    /\ pc = "edit"
    /\ de.i = 2
    /\ Len(de.newOrder) = 3
    /\ store[de.newOrder[1]].name # before.store[de.newOrder[1]].name
    /\ store[de.newOrder[2]].name = de.newOrder[1]

\* C10: when onto fails for the k-th branch of the reversed list, the edit
\* stops there and returns the error: the failed call is the last call (no
\* further onto, no checkout), the first k-1 branches keep their new bases,
\* the k-th and the later ones keep their records.
C10_OntoFailureStops ==
    pc \in {"edit", "edit_done"} =>
        \A k \in OntoCalls :
            calls[k].res # "ok" =>
                /\ k = Len(calls)
                /\ pc = "edit_done"
                /\ result = calls[k].res
                /\ de.i = k
                /\ calls[k].branch = de.newOrder[k]
                /\ \A j \in 1..(k - 1) :
                       /\ calls[j].op = "onto" /\ calls[j].res = "ok"
                       /\ store[de.newOrder[j]].name
                              = IF j = 1 THEN Trunk ELSE de.newOrder[j - 1]
                       /\ store[de.newOrder[j]].hash
                              = repo.tip[store[de.newOrder[j]].name]
                /\ \A j \in k..Len(de.newOrder) :
                       store[de.newOrder[j]] = before.store[de.newOrder[j]]

\* C10 witness: the second of three re-parents failed after the first had
\* changed the store.
C10_Witness ==
    /\ pc = "edit_done"
    /\ result = "Conflict"
    /\ Len(calls) = 2
    /\ Len(de.newOrder) = 3
    /\ store # before.store

\* C11: the temporary file made for the editor no longer exists when
\* downstack-edit returns, whatever the exit path: a failed editor, a file
\* that cannot be opened or read, InvalidEdit, an aborted edit, a failed
\* onto, a failed checkout, or success.
C11_EditFileRemoved ==
    pc = "edit_done" => de.editFile = ""

\* The record of x is whole: the one it had when the command started, or
\* the one of a finished restack (same base, the base hash the tip of the
\* base, the commits of x on that tip).
WholeRecord(x) ==
    \/ store[x] = before.store[x]
    \/ /\ store[x].name = before.store[x].name
       /\ \E k \in RestackCalls : calls[k].branch = x /\ calls[k].rebased
       /\ Aligned(x)

\* What a step of a cancelled restack_upstack may do: nothing to the store
\* and to the repository, and it either passes over trunk or returns
\* Cancelled.
CancelledStep ==
    (pc = "upstack" /\ cancelled) =>
        /\ store' = store
        /\ repo' = repo
        /\ \/ pc' = "upstack_done" /\ result' = "Cancelled"
           \/ /\ pc' = "upstack"
              /\ calls' = calls
              /\ us.upstacks[us.i] = Trunk

\* What holds of a restack_upstack that was cancelled: a call that
\* returned Cancelled is the last call, the command returns Cancelled, and
\* every record of the upstack is whole.
CancelledState ==
    pc \in {"upstack", "upstack_done"} =>
        /\ \A k \in 1..Len(calls) :
               calls[k].res = "Cancelled" =>
                   k = Len(calls) /\ pc = "upstack_done" /\ result = "Cancelled"
        /\ (cancelled /\ pc = "upstack_done") => result = "Cancelled"
        /\ cancelled => \A x \in Range(us.upstacks) \ {Trunk} : WholeRecord(x)

StepOfHolder ==
    (~AllIdle /\ (store' # store \/ repo' # repo)) =>
        /\ lock \in Procs
        /\ procs[lock].pc = "upstack"
        /\ lock' = lock
        /\ \A q \in Procs \ {lock} : procs'[q] = procs[q]

\* A process in its loop, or returning from it, holds the lock; a process
\* that waits for the lock or fails with StoreBusy has called nothing.
HoldsOrNothing ==
    \A p \in Procs :
        /\ procs[p].pc = "upstack" => lock = p
        /\ (procs[p].pc = "done" /\ procs[p].calls > 0) => lock = p
        /\ (procs[p].pc = "waiting" \/ procs[p].result = "StoreBusy") =>
               /\ procs[p].calls = 0
               /\ procs[p].us = NoUpstack
               /\ lock # p

CheckoutCalls == {k \in 1..Len(calls) : calls[k].op = "Checkout"}

\* C14: restack_upstack checks the original branch out exactly when the
\* whole traversal succeeded: a checkout is called if and only if every
\* branch of the upstack was restacked or found restacked, and it is the
\* last call, of the branch that was current at the start; on success that
\* branch is current again. After a Conflict or another error of Restack
\* no checkout is called, and after a Conflict the rebase of the
\* conflicting branch is in progress in the worktree.
C14_CheckoutOnSuccessOnly ==
    (pc = "upstack_done" /\ us # NoUpstack) =>
        /\ us.currentBranch = CurrentBranch(before.repo)
        /\ CheckoutCalls # {} <=>
               \A k \in RestackCalls : calls[k].res \in {"ok", "AlreadyRestacked"}
        /\ CheckoutCalls # {} <=>
               [k \in 1..(Len(calls) - 1) |-> calls[k].branch]
                   = Restackable(Len(us.upstacks))
        /\ \A k \in CheckoutCalls :
               k = Len(calls) /\ calls[k].branch = us.currentBranch
        /\ result = "ok" =>
               CheckoutCalls # {} /\ CurrentBranch(repo) = us.currentBranch
        /\ result = "Conflict" =>
               /\ CheckoutCalls = {}
               /\ repo.rebase # NoRebase
               /\ repo.rebase.branch = calls[Len(calls)].branch
               /\ repo.head = calls[Len(calls)].branch
               /\ CurrentBranch(repo) = "Detached"

\* C14 witness: the command succeeded, a rebase of another branch had
\* moved the worktree off the original branch, and the original branch is
\* checked out again.
C14_Witness ==
    /\ pc = "upstack_done"
    /\ result = "ok"
    /\ \E k \in RestackCalls :
           /\ calls[k].rebased
           /\ calls[k].branch # us.currentBranch
           /\ repo.tip[calls[k].branch] # before.repo.tip[calls[k].branch]
    /\ repo.head = us.currentBranch
    /\ us.currentBranch # Trunk

\* The checkout of a downstack-edit comes after the last onto: it is the
\* last call, every name of the document was re-parented before it, and
\* it names the first name of the document; when it succeeds, that branch
\* is the current branch.
CheckoutOfNewTop ==
    /\ \A k \in CheckoutCalls :
           /\ k = Len(calls)
           /\ k = Len(de.edited) + 1
           /\ \A j \in 1..(k - 1) : calls[j].op = "onto" /\ calls[j].res = "ok"
           /\ calls[k].branch = de.edited[1]
    /\ (pc = "edit_done" /\ result = "ok") =>
           /\ CheckoutCalls # {}
           /\ CurrentBranch(repo) = de.edited[1]

\* C15 as it is worded: after an edit whose re-parents all succeeded, the
\* branch checked out is the first name of the document, and it is not the
\* last branch the bottom-up loop processed.
C15_NewTopNotLastProcessed ==
    EditReparented =>
        /\ CheckoutOfNewTop
        /\ \A k \in CheckoutCalls : calls[k].branch # calls[k - 1].branch

\* C15: after an edit whose re-parents all succeeded, the branch checked
\* out is the first (top) name of the document as the user wrote it,
\* whichever the leaf of the original chain was; this is the branch the
\* bottom-up loop processed last, and the checkout comes only after the
\* last onto.
C15_NewTopCheckedOut ==
    EditReparented =>
        /\ CheckoutOfNewTop
        /\ \A k \in CheckoutCalls : calls[k].branch = calls[k - 1].branch

\* C15 witness: an edit that put another branch than the original leaf
\* first has succeeded, and that branch is checked out.
C15_Witness ==
    /\ EditReparented
    /\ pc = "edit_done"
    /\ result = "ok"
    /\ Len(de.edited) = 3
    /\ de.edited[1] # de.downstacks[1]
    /\ before.repo.head = de.downstacks[1]
    /\ repo.head = de.edited[1]

\* C16: a document with no line but blank lines and comments makes
\* downstack-edit report "aborted" and return without an error and without
\* a change: no onto (so no rebase and no store update) and no checkout is
\* called, and the store and the repository, the current branch with it,
\* are as before the edit.
C16_EmptyEditNoChange ==
    (/\ pc \in {"edit", "edit_done"}
     /\ de.downstacks # <<>>
     /\ DocNames(de.doc) = <<>>
     /\ de.badAt = 0) =>
        /\ pc = "edit_done"
        /\ result = "aborted"
        /\ calls = <<>>
        /\ store = before.store
        /\ repo = before.repo
        /\ CurrentBranch(repo) = CurrentBranch(before.repo)

\* C16 witness: the editor left the instructions alone, comments and a
\* blank line, of a chain of three branches.
C16_Witness ==
    /\ pc = "edit_done"
    /\ result = "aborted"
    /\ de.doc = _editFooter
    /\ Len(de.downstacks) = 3

\* The editor left the document as downstack-edit had written it.
EditUnchanged ==
    /\ pc \in {"edit", "edit_done"}
    /\ de.downstacks # <<>>
    /\ de.doc = createEditFile(de.downstacks)

\* C17: a downstack-edit whose document comes back as it was written
\* keeps the base name of every branch of the chain; a base hash changes
\* only to the tip of the base, and only where that tip is no longer the
\* hash that was recorded; so when every record of the chain held the tip
\* of its base, the store is as it was.
C17_UnchangedEditKeepsStore ==
    EditUnchanged =>
        /\ \A b \in Branches : store[b].name = before.store[b].name
        /\ \A b \in Branches :
               store[b].hash # before.store[b].hash =>
                   /\ b \in Range(de.downstacks)
                   /\ store[b].hash = repo.tip[store[b].name]
                   /\ repo.tip[store[b].name] # before.store[b].hash
        /\ (\A b \in Range(de.downstacks) :
               before.store[b].hash = before.repo.tip[before.store[b].name])
             => store = before.store

\* C17 witness: the unchanged edit of a chain of two branches has succeeded
\* and has refreshed the base hash of both, that of the upper one because
\* the edit itself moved the lower one.
C17_Witness ==
    /\ EditUnchanged
    /\ pc = "edit_done"
    /\ result = "ok"
    /\ Len(de.downstacks) = 2
    /\ \A b \in Range(de.downstacks) : store[b].hash # before.store[b].hash
    /\ before.store[de.downstacks[1]].hash = before.repo.tip[de.downstacks[2]]

\* C18: downstack-edit re-parents bottom-up. For a valid document x1..xn
\* (top first) the k-th call of onto moves x(n+1-k), onto trunk when k = 1
\* and else onto the branch of the call before, which succeeded; the calls
\* of onto are the first calls of the run, at most n, and all n when the
\* command succeeds. No branch is moved onto itself.
C18_BottomUpOnto ==
    (pc \in {"edit", "edit_done"} /\ de.edited # <<>> /\ de.badAt = 0) =>
        LET n == Len(de.edited)
        IN  /\ OntoCalls = 1..Cardinality(OntoCalls)
            /\ Cardinality(OntoCalls) <= n
            /\ (pc = "edit_done" /\ result = "ok") => OntoCalls = 1..n
            /\ \A k \in OntoCalls :
                   /\ calls[k].branch = de.edited[n + 1 - k]
                   /\ calls[k].onto = IF k = 1 THEN Trunk ELSE de.edited[n + 2 - k]
                   /\ calls[k].onto # calls[k].branch
                   /\ k > 1 => /\ calls[k - 1].branch = calls[k].onto
                               /\ calls[k - 1].res = "ok"
                               /\ store[calls[k].onto].name
                                      = calls[k - 1].onto

\* C18 witness: an edit that reordered a chain of three branches has made
\* its three calls of onto.
C18_Witness ==
    /\ pc = "edit"
    /\ Len(de.edited) = 3
    /\ de.edited # de.downstacks
    /\ OntoCalls = 1..3
    /\ calls[3].res = "ok"

\* C19: the calls of Restack of restack_upstack(b) are a prefix of
\* list_upstack(b) without trunk, in the order of the list and each branch
\* once; the prefix is the whole list unless a call returned an error
\* other than AlreadyRestacked, which is then the last call and the result
\* of the command. AlreadyRestacked never ends the loop and is never the
\* result, and Restack is never called on trunk.
C19_RestackSequence ==
    pc \in {"upstack", "upstack_done"} =>
        LET m    == Cardinality(RestackCalls)
            todo == SelectSeq(ListUpstack(before.store, CurrentBranch(before.repo)),
                              LAMBDA x : x # Trunk)
        IN  /\ RestackCalls = 1..m
            /\ m <= Len(todo)
            /\ \A k \in RestackCalls :
                   /\ calls[k].branch = todo[k]
                   /\ calls[k].branch # Trunk
                   /\ \A j \in 1..(k - 1) : calls[j].branch # calls[k].branch
                   /\ calls[k].res \notin {"ok", "AlreadyRestacked"} =>
                          /\ k = Len(calls)
                          /\ pc = "upstack_done"
                          /\ result = calls[k].res
                   /\ (calls[k].res = "AlreadyRestacked" /\ pc = "upstack_done") =>
                          k < Len(calls)
            /\ result # "AlreadyRestacked"
            /\ (/\ pc = "upstack_done"
                /\ us # NoUpstack
                /\ \A k \in RestackCalls :
                       calls[k].res \in {"ok", "AlreadyRestacked"}) =>
                   m = Len(todo)

\* C19 witness: started on trunk, the command passed over trunk, found the
\* first branch restacked, rebased the second and failed on the third,
\* with a fourth call never made.
C19_Witness ==
    /\ pc = "upstack_done"
    /\ us.currentBranch = Trunk
    /\ Len(calls) = 3
    /\ calls[1].res = "AlreadyRestacked"
    /\ calls[2].res = "ok" /\ calls[2].rebased
    /\ calls[3].res = "Conflict"
    /\ Len(us.upstacks) = 4

\* A snapshot was captured before the k-th command: by a snapshot command,
\* or by an await without argument that was not skipped.
Captured(k) ==
    \E j \in 1..(k - 1) :
        \/ script[j].cmd = "snapshot"
        \/ /\ script[j] = [cmd |-> "await", rest |-> <<>>]
           /\ tlog[j] # "skipped"

\* C20: in WithTerm a failure is sticky: once an await has failed the exit
\* code is 1 and stays 1 through every later command, and the later
\* commands are still executed, in the order of the script. An await
\* without argument when no snapshot was captured is skipped and leaves the
\* exit code alone. A feed whose text cannot be unquoted ends the script
\* at once with exit code 1.
C20_StickyFailure ==
    tpc \in {"run", "done"} =>
        /\ Len(tlog) <= Len(script)
        /\ tpc = "run" => Len(tlog) = ip - 1
        /\ (\E k \in 1..Len(tlog) : tlog[k] \in {"failed", "unquote"}) => exitCode = 1
        /\ (tpc = "run" /\ exitCode = 1) => \E k \in 1..Len(tlog) : tlog[k] = "failed"
        /\ (tpc = "done" /\ \A k \in 1..Len(tlog) : tlog[k] # "unquote") =>
               Len(tlog) = Len(script)
        /\ \A k \in 1..Len(tlog) :
               /\ script[k].cmd = "await" => tlog[k] \in {"matched", "failed", "skipped"}
               /\ script[k].cmd = "snapshot" => tlog[k] = "snapshot"
               /\ script[k].cmd = "feed" => tlog[k] \in {"fed", "unquote"}
               /\ tlog[k] = "skipped" => script[k] = [cmd |-> "await", rest |-> <<>>]
               /\ (script[k] = [cmd |-> "await", rest |-> <<>>] /\ ~Captured(k)) =>
                      tlog[k] = "skipped"
               /\ tlog[k] = "unquote" <=>
                      /\ script[k].cmd = "feed"
                      /\ script[k].rest \in {<<"\\", "q">>, <<"\\", "\"">>}
               /\ tlog[k] = "unquote" => k = Len(tlog) /\ tpc = "done"

\* C20 witness: the first await failed, and the script went on through a
\* snapshot and an await that matched; WithTerm has returned 1.
C20_Witness ==
    /\ tpc = "done"
    /\ exitCode = 1
    /\ tlog = <<"failed", "snapshot", "matched">>
====
